---------------------------- MODULE Spec2Model ----------------------------
(***************************************************************************)
(* A model of the campaign calendar of the Reddit campaign planner:        *)
(*   - renderCommentThread, the recursive rendering of a post's flat       *)
(*     comment list as a nested thread, run one call / one map callback    *)
(*     at a time on an explicit call stack;                                *)
(*   - the week computation of CampaignCalendar (safeDate,                 *)
(*     getWeekFromTimestamp, the effect that sorts the posts and sets      *)
(*     totalWeeks, the week selector and the filtered post list);          *)
(*   - the campaign list of App, LandingPage and CreateCampaignForm: the   *)
(*     list in memory and its copy in localStorage, the views, the         *)
(*     requests of the form and the setTimeout callbacks.                  *)
(* Each part has its own specification (SpecThread, SpecWeek, SpecApp);    *)
(* SpecAgain renders the calendar more than once, SpecGetWeek is one call  *)
(* of getWeekFromTimestamp with any arguments, SpecForm is the form with   *)
(* its own state (errors, progress), and SpecLanding is the landing page   *)
(* with both answers to the delete confirmation.                           *)
(*                                                                         *)
(* JavaScript values are modelled by what the code can tell apart:         *)
(*   an id (comment_id, parent_comment_id) is [k, n] with k one of         *)
(*     "null"  null or undefined (a missing field),                        *)
(*     "blank" the empty string or a string of white space only,           *)
(*     "num"   the number n,                                               *)
(*     "str"   the string of n's digits,                                   *)
(*     "pad"   the string of n's digits with white space around it;        *)
(*   a timestamp is [k, t] with k one of                                   *)
(*     "missing" a falsy value (undefined, null, "", 0),                   *)
(*     "bad"     a truthy value that new Date() turns into Invalid Date,   *)
(*     "time"    a value that parses, Date.getTime() being t.              *)
(* Time is counted in whole seconds (Date.getTime() / 1000 for timestamps  *)
(* that carry no milliseconds), so that a day is 86400 and not 86400000:   *)
(* TLC's integers are 32 bits wide.                                        *)
(***************************************************************************)
EXTENDS Integers, Sequences, FiniteSets, TLC

VARIABLES
    comments,      \* renderCommentThread: the post's comment list (post.comments)
    callStack,     \* renderCommentThread: the active calls, innermost last
    out,           \* renderCommentThread: the comments rendered so far, in document order
    tpc,           \* renderCommentThread: "idle", "running", "done" or "overflow"; "off" where no post is shown
    lastOut,       \* history: <<the out of the render before this one>>, <<>> in the first render
    campaign,      \* CampaignCalendar: the campaign prop
    posts,         \* CampaignCalendar: useState posts
    totalWeeks,    \* CampaignCalendar: useState totalWeeks
    currentWeek,   \* CampaignCalendar: useState currentWeek
    wpc,           \* CampaignCalendar: "mounted" (first render) or "loaded" (effect ran); "off" where no calendar is shown
    view,          \* App: useState view, "landing", "create" or "calendar"
    campaigns,     \* App: useState campaigns, the campaign list in memory
    selectedCampaignId, \* App: useState selectedCampaignId, <<>> for null
    storage,       \* localStorage item 'redditCampaigns': <<>> for none, else <<its JSON text>>
    isSubmitting,  \* CreateCampaignForm: useState isSubmitting of the mounted form
    fetches,       \* CreateCampaignForm: the requests of handleSubmit that await their response
    timers,        \* the pending setTimeout callbacks, in the order they were set
    now,           \* the last reading of the clock (Date.now())
    created,       \* the number of campaigns submitted so far, stored ones included
    deleted,       \* history: the campaigns whose deletion the user confirmed
    deleting,      \* LandingPage: useState deleting, <<>> for null
    error,         \* LandingPage: useState error, <<>> for null
    success,       \* LandingPage: useState success, <<>> for null
    lastConfirm,   \* history: <<the last answer of window.confirm>>, <<>> before the first
    errors,        \* CreateCampaignForm: useState errors of the mounted form
    progress,      \* CreateCampaignForm: useState progress of the mounted form, in thirds of a percent
    intervals,     \* the setInterval timers that run, each named by the submission that set it
    weekCall       \* getWeekFromTimestamp: one call of it, its arguments and the week it returns

threadVars == <<comments, callStack, out, tpc, lastOut>>
weekVars == <<campaign, posts, totalWeeks, currentWeek, wpc>>
landingVars == <<deleting, error, success, lastConfirm>>
formVars == <<errors, progress, intervals>>
appVars ==
    <<view, campaigns, selectedCampaignId, storage, isSubmitting, fetches,
      timers, now, created, deleted, landingVars, formVars>>
vars ==
    <<comments, callStack, out, tpc, lastOut, campaign, posts, totalWeeks,
      currentWeek, wpc, view, campaigns, selectedCampaignId, storage, isSubmitting, fetches,
      timers, now, created, deleted, deleting, error, success, lastConfirm,
      errors, progress, intervals, weekCall>>

-----------------------------------------------------------------------------
(* Bounds of the model.                                                    *)

\* The longest comment list drawn as input.
MaxComments == 3
\* The longest post list drawn as input.
MaxPosts == 3
\* Post times are drawn from the weeks 0..MaxWeekIdx after the campaign start.
MaxWeekIdx == 3
\* The campaigns submitted in a run, the stored ones included.
MaxCampaigns == 3
\* The refreshes of confirmed deletes that may be pending at a time.
MaxRefreshTimers == 1
MaxWeeksBefore == 2
MaxTicks == 1

-----------------------------------------------------------------------------
(* Values.                                                                 *)

NullId == [k |-> "null", n |-> 0]
BlankId == [k |-> "blank", n |-> 0]
NumId(n) == [k |-> "num", n |-> n]
StrId(n) == [k |-> "str", n |-> n]
\* The string of n with blanks around it, " 5 ".
PadId(n) == [k |-> "pad", n |-> n]

MissingTs == [k |-> "missing", t |-> 0]
BadTs == [k |-> "bad", t |-> 0]
TimeTs(t) == [k |-> "time", t |-> t]

\* The canonical null of norm, and the trimmed string of the digits of n.
NormNull == <<>>
NormStr(n) == <<n>>

-----------------------------------------------------------------------------
(* Shared helpers.                                                         *)

\* safeDate(ts): NoDate for the null it returns on a falsy or an unparseable
\* value, and otherwise <<t>>, t being getTime() of the Date it returns.
NoDate == <<>>
SafeDate(ts) ==
    IF ts.k = "missing" THEN NoDate
    ELSE IF ts.k = "bad" THEN NoDate
    ELSE <<ts.t>>

\* safeDate(x?.timestamp)?.getTime() ?? 0, the key of all three sorts.
SortKey(ts) == IF SafeDate(ts) = NoDate THEN 0 ELSE SafeDate(ts)[1]

\* Array.prototype.sort with the comparator (a, b) => key(a) - key(b): a stable
\* sort, here by insertion from the left. s is a sequence, key a function on
\* its elements.
RECURSIVE InsertSorted(_, _, _)
InsertSorted(s, x, key) ==
    IF s = <<>> THEN <<x>>
    ELSE IF key[x] < key[s[Len(s)]]
         THEN Append(InsertSorted(SubSeq(s, 1, Len(s) - 1), x, key), s[Len(s)])
         ELSE Append(s, x)

RECURSIVE StableSort(_, _)
StableSort(s, key) ==
    IF s = <<>> THEN <<>>
    ELSE InsertSorted(StableSort(SubSeq(s, 1, Len(s) - 1), key), s[Len(s)], key)

RECURSIVE FilterSeq(_, _)
FilterSeq(s, keep) ==
    IF s = <<>> THEN <<>>
    ELSE IF s[1] \in keep THEN <<s[1]>> \o FilterSeq(Tail(s), keep)
         ELSE FilterSeq(Tail(s), keep)

\* The errors of the form: none (useState({})), the errors validateForm found
\* in the fields, or { submit: error.message }.
NoErrors == [fields |-> FALSE, submit |-> FALSE]
FieldErrors == [fields |-> TRUE, submit |-> FALSE]
SubmitError == [fields |-> FALSE, submit |-> TRUE]

\* No call of getWeekFromTimestamp on its own is part of the run.
NoCall ==
    [pc |-> "off", timestamp |-> MissingTs, sortedPostsArray |-> <<>>, week |-> 1]

\* The App component is not part of a run of the calendar alone.
AppNotStarted ==
    /\ view = "calendar"
    /\ campaigns = <<>>
    /\ selectedCampaignId = <<>>
    /\ storage = <<>>
    /\ isSubmitting = FALSE
    /\ fetches = {}
    /\ timers = <<>>
    /\ now = 0
    /\ created = 0
    /\ deleted = {}
    /\ deleting = <<>>
    /\ error = <<>>
    /\ success = <<>>
    /\ lastConfirm = <<>>
    /\ errors = NoErrors
    /\ progress = 0
    /\ intervals = {}

-----------------------------------------------------------------------------
(* renderCommentThread.                                                    *)

\* norm without String(v).trim(): a value matches only a value of the same
\* type, written the same way.
NormSameType(v) ==
    IF v.k = "null" THEN NormNull
    ELSE IF v.k = "blank" THEN NormNull
    ELSE <<v.n, v.k>>

\* norm: null and undefined give null; any other value gives its trimmed
\* string form, or null when that is empty.
Norm(v) ==
    IF v.k = "null" THEN NormNull
    ELSE IF v.k = "blank" THEN NormNull
    ELSE NormStr(v.n)

\* The recursive call given the comment's parent id instead of its id.
ChildParentIdOfParent(c) == c.parent_comment_id

\* comment.comment_id ?? null, the parentId of the recursive call.
ChildParentId(c) == IF c.comment_id.k = "null" THEN NullId ELSE c.comment_id

\* The comments are named by their position in the list.
Indices(cs) == [i \in 1..Len(cs) |-> i]

CommentKey(cs) == [i \in 1..Len(cs) |-> SortKey(cs[i].timestamp)]

\* DirectComments without its sort: the direct comments in list order.
DirectCommentsUnsorted(cs, parentId) ==
    FilterSeq(Indices(cs),
              {i \in 1..Len(cs) : Norm(cs[i].parent_comment_id) = Norm(parentId)})

\* directComments: the comments whose normalized parent id is the normalized
\* parentId, sorted by timestamp.
DirectComments(cs, parentId) ==
    StableSort(
        FilterSeq(Indices(cs),
                  {i \in 1..Len(cs) : Norm(cs[i].parent_comment_id) = Norm(parentId)}),
        CommentKey(cs))

\* The comments array with the sort run on it, and not on the array that
\* filter returns.
CommentsSortedInPlace(cs, parentId) ==
    LET order == StableSort(Indices(cs), CommentKey(cs))
    IN [i \in 1..Len(cs) |-> cs[order[i]]]

\* The comments array after a call: filter (line 109) returns a new array,
\* and sort (line 110) orders that array in place; comments is left as it is.
CommentsAfterSort(cs, parentId) == cs

\* One call of renderCommentThread(comments, parentId, depth): its sorted
\* direct comments and the position of the map callback that runs next.
Frame(cs, parentId, depth) ==
    [parentId |-> parentId, direct |-> DirectComments(cs, parentId),
     idx |-> 1, depth |-> depth]

\* ChildDepth passing its own depth on.
ChildDepthSame(depth) == depth

\* The depth of the recursive call: depth + 1.
ChildDepth(depth) == depth + 1

\* The call stack the engine allows. A list of n comments in which no rendered
\* comment is rendered again beneath itself nests at most n + 1 calls, and no
\* input list is longer than MaxComments + 1, so a call beyond StackLimit only
\* happens in a recursion that never ends (the engine then throws RangeError).
StackLimit == MaxComments + 2

Top == callStack[Len(callStack)]

\* post.comments rendered: renderCommentThread(post.comments, null, 0).
RenderThread ==
    /\ tpc = "idle"
    /\ callStack' = <<Frame(comments, NullId, 0)>>
    /\ comments' = CommentsAfterSort(comments, NullId)
    /\ tpc' = "running"
    /\ UNCHANGED <<out, lastOut, weekVars, appVars, weekCall>>

\* The calendar renders again (a week button, a copy button, a refreshed
\* campaign list): renderCommentThread(post.comments, null, 0) once more.
RenderThreadAgain ==
    /\ tpc = "done"
    /\ lastOut = <<>>
    /\ lastOut' = <<out>>
    /\ out' = <<>>
    /\ callStack' = <<Frame(comments, NullId, 0)>>
    /\ comments' = CommentsAfterSort(comments, NullId)
    /\ tpc' = "running"
    /\ UNCHANGED <<weekVars, appVars, weekCall>>

\* The map callback for the next direct comment: the comment's block is
\* rendered at this depth and, inside it, the thread of its replies.
MapCallback ==
    /\ tpc = "running"
    /\ callStack # <<>>
    /\ Top.idx <= Len(Top.direct)
    /\ LET c == Top.direct[Top.idx] IN
         /\ out' = Append(out, [c |-> c, depth |-> Top.depth])
         /\ IF Len(callStack) >= StackLimit
            THEN /\ tpc' = "overflow"
                 /\ UNCHANGED callStack
            ELSE /\ callStack' = Append(callStack,
                        Frame(comments, ChildParentId(comments[c]), ChildDepth(Top.depth)))
                 /\ UNCHANGED tpc
         /\ comments' = CommentsAfterSort(comments, ChildParentId(comments[c]))
    /\ UNCHANGED <<lastOut, weekVars, appVars, weekCall>>

\* The map is over: the call returns to the callback that made it, which
\* returns too, and the caller's map goes on with its next comment.
Return ==
    /\ tpc = "running"
    /\ callStack # <<>>
    /\ Top.idx > Len(Top.direct)
    /\ IF Len(callStack) = 1
       THEN /\ callStack' = <<>>
            /\ tpc' = "done"
       ELSE /\ callStack' = [SubSeq(callStack, 1, Len(callStack) - 1)
                               EXCEPT ![Len(callStack) - 1].idx = @ + 1]
            /\ UNCHANGED tpc
    /\ UNCHANGED <<comments, out, lastOut, weekVars, appVars, weekCall>>

\* The inputs (see InitThread): every list of at most MaxComments comments
\* drawn from CommentVals, which holds every kind of id and of timestamp, and
\* the lists of ExtraCommentLists.
CommentIdVals == {NullId, BlankId, NumId(1), StrId(2)}
ParentIdVals == {NullId, StrId(1), NumId(2)}
CommentTsVals == {BadTs, TimeTs(5)}
CommentVals ==
    [comment_id : CommentIdVals, parent_comment_id : ParentIdVals,
     timestamp : CommentTsVals]

Comment(id, parent, ts) ==
    [comment_id |-> id, parent_comment_id |-> parent, timestamp |-> ts]

\* The example of the specification: {1, root, t10}, {2, parent 1, t20},
\* {3, root, t5}.
ExampleComments ==
    <<Comment(NumId(1), NullId, TimeTs(10)),
      Comment(NumId(2), NumId(1), TimeTs(20)),
      Comment(NumId(3), NullId, TimeTs(5))>>

\* Lists with a timestamp before 1970, a missing timestamp, a blank parent id,
\* ids and parent ids written the other way round (string id, number
\* parent), and ids and parent ids written with blanks around them.
ExtraCommentLists ==
    {ExampleComments,
     <<Comment(NumId(1), BlankId, TimeTs(5)),
       Comment(NumId(2), NullId, BadTs),
       Comment(NumId(3), BlankId, TimeTs(-5)),
       Comment(NumId(4), NullId, MissingTs)>>,
     <<Comment(StrId(1), NullId, TimeTs(10)),
       Comment(StrId(3), NumId(1), TimeTs(5)),
       Comment(NumId(2), StrId(1), MissingTs),
       Comment(NumId(4), StrId(3), TimeTs(5))>>,
     <<Comment(NumId(5), NullId, TimeTs(5)),
       Comment(StrId(6), PadId(5), TimeTs(5)),
       Comment(PadId(7), StrId(6), BadTs),
       Comment(NumId(8), NumId(7), TimeTs(5))>>}

InitThread ==
    /\ \/ comments \in ExtraCommentLists
       \/ \E n \in 0..MaxComments : comments \in [1..n -> CommentVals]
    /\ callStack = <<>>
    /\ out = <<>>
    /\ tpc = "idle"
    /\ lastOut = <<>>
    /\ campaign = <<>>
    /\ posts = <<>>
    /\ totalWeeks = 1
    /\ currentWeek = 1
    /\ wpc = "off"
    /\ AppNotStarted
    /\ weekCall = NoCall

NextThread == RenderThread \/ MapCallback \/ Return

SpecThread == InitThread /\ [][NextThread]_vars

-----------------------------------------------------------------------------
(* The weeks of CampaignCalendar.                                          *)

\* 1000 * 60 * 60 * 24 milliseconds, in seconds.
SecPerDay == 86400
DaysPerWeek == 7

\* The posts value of a campaign (nestedData.posts, plan.posts): missing (or
\* another falsy value), a truthy value that is no array, or an array.
MissingPosts == [k |-> "missing", v |-> <<>>]
NotArrayPosts == [k |-> "notarray", v |-> <<>>]
ArrayPosts(l) == [k |-> "array", v |-> l]

\* campaign?.nestedData?.posts || campaign?.plan?.posts || [], and [] for a
\* value that is no array.
PostsData(c) ==
    LET chosen == IF c.nested.k # "missing" THEN c.nested
                  ELSE IF c.plan.k # "missing" THEN c.plan
                  ELSE ArrayPosts(<<>>)
    IN IF chosen.k = "array" THEN chosen.v ELSE <<>>

SeqRange(s) == {s[i] : i \in 1..Len(s)}

PostKey(l) == [p \in SeqRange(l) |-> SortKey(p.timestamp)]

\* SortPosts with the comparator turned round (bd - ad).
SortPostsDescending(l) == StableSort(l, [p \in SeqRange(l) |-> 0 - SortKey(p.timestamp)])

\* SortPosts leaving the posts in the order of the input.
SortPostsUnsorted(l) == l

\* SortPosts with the posts whose timestamp does not parse sorted last.
SortPostsUnparseableLast(l) ==
    StableSort(l, [p \in SeqRange(l) |->
                      IF p.timestamp.k = "time" THEN p.timestamp.t ELSE 2000000000])

\* [...postsData].sort(...): a copy in ascending order of the sort key.
SortPosts(l) == StableSort(l, PostKey(l))

\* GetWeekFromTimestamp rounding the weeks up (Math.ceil(daysDiff / 7)).
GetWeekFromTimestampCeil(timestamp, sortedPostsArray) ==
    IF timestamp.k = "missing" \/ Len(sortedPostsArray) = 0 THEN 1
    ELSE LET postDate == SafeDate(timestamp)
             firstPostDate == SafeDate(sortedPostsArray[1].timestamp)
         IN IF postDate = NoDate \/ firstPostDate = NoDate THEN 1
            ELSE LET timeDiff == postDate[1] - firstPostDate[1]
                     daysDiff == timeDiff \div SecPerDay
                 IN (0 - ((0 - daysDiff) \div DaysPerWeek)) + 1

\* GetWeekFromTimestamp giving no week (0) to a timestamp that does not parse.
GetWeekFromTimestampNoFallback(timestamp, sortedPostsArray) ==
    IF timestamp.k = "missing" \/ Len(sortedPostsArray) = 0 THEN 1
    ELSE LET postDate == SafeDate(timestamp)
             firstPostDate == SafeDate(sortedPostsArray[1].timestamp)
         IN IF postDate = NoDate THEN 0
            ELSE IF firstPostDate = NoDate THEN 1
            ELSE LET timeDiff == postDate[1] - firstPostDate[1]
                     daysDiff == timeDiff \div SecPerDay
                 IN (daysDiff \div DaysPerWeek) + 1

\* GetWeekFromTimestamp rounding the days and the weeks toward zero
\* (Math.trunc for Math.floor).
GetWeekFromTimestampTrunc(timestamp, sortedPostsArray) ==
    IF timestamp.k = "missing" \/ Len(sortedPostsArray) = 0 THEN 1
    ELSE LET postDate == SafeDate(timestamp)
             firstPostDate == SafeDate(sortedPostsArray[1].timestamp)
             Trunc(a, b) == IF a < 0 THEN 0 - ((0 - a) \div b) ELSE a \div b
         IN IF postDate = NoDate \/ firstPostDate = NoDate THEN 1
            ELSE LET timeDiff == postDate[1] - firstPostDate[1]
                     daysDiff == Trunc(timeDiff, SecPerDay)
                 IN Trunc(daysDiff, DaysPerWeek) + 1

\* getWeekFromTimestamp(timestamp, sortedPostsArray).
GetWeekFromTimestamp(timestamp, sortedPostsArray) ==
    IF timestamp.k = "missing" \/ Len(sortedPostsArray) = 0 THEN 1
    ELSE LET postDate == SafeDate(timestamp)
             firstPostDate == SafeDate(sortedPostsArray[1].timestamp)
         IN IF postDate = NoDate \/ firstPostDate = NoDate THEN 1
            ELSE LET timeDiff == postDate[1] - firstPostDate[1]
                     daysDiff == timeDiff \div SecPerDay
                 IN (daysDiff \div DaysPerWeek) + 1

SetMax(S) == CHOOSE x \in S : \A y \in S : y <= x

\* TotalWeeksOf counting the weeks that have posts (weeks.size).
TotalWeeksBySize(sorted) ==
    IF Len(sorted) # 0
    THEN Cardinality({GetWeekFromTimestamp(sorted[i].timestamp, sorted) :
                         i \in 1..Len(sorted)})
    ELSE 1

\* The totalWeeks the effect sets for the sorted posts.
TotalWeeksOf(sorted) ==
    IF Len(sorted) # 0
    THEN LET weeks == {GetWeekFromTimestamp(sorted[i].timestamp, sorted) :
                          i \in 1..Len(sorted)}
         IN SetMax(weeks \cup {1})
    ELSE 1

\* The posts array of the campaign after the effect: the sort orders the
\* copy [...postsData] in place; postsData is left as it is.
PostsDataAfterSort(postsData) == postsData

\* The campaign with the array that PostsData reads replaced by l.
WithPostsData(c, l) ==
    IF c.nested.k # "missing"
    THEN (IF c.nested.k = "array" THEN [c EXCEPT !.nested.v = l] ELSE c)
    ELSE IF c.plan.k = "array" THEN [c EXCEPT !.plan.v = l]
    ELSE c

\* The effect that runs when the calendar is mounted with its campaign.
LoadPosts ==
    /\ wpc = "mounted"
    /\ LET sorted == SortPosts(PostsData(campaign)) IN
         /\ posts' = sorted
         /\ totalWeeks' = TotalWeeksOf(sorted)
    /\ campaign' = WithPostsData(campaign, PostsDataAfterSort(PostsData(campaign)))
    /\ wpc' = "loaded"
    /\ UNCHANGED <<currentWeek, threadVars, appVars, weekCall>>

\* The effect runs again: the campaign prop is a new object with the same
\* content (the list was read from localStorage again).
ReloadPosts ==
    /\ wpc = "loaded"
    /\ LET sorted == SortPosts(PostsData(campaign)) IN
         /\ posts' = sorted
         /\ totalWeeks' = TotalWeeksOf(sorted)
    /\ campaign' = WithPostsData(campaign, PostsDataAfterSort(PostsData(campaign)))
    /\ UNCHANGED <<currentWeek, wpc, threadVars, appVars, weekCall>>

\* A click on one of the week buttons 1..totalWeeks.
SetCurrentWeek ==
    /\ wpc = "loaded"
    /\ \E week \in 1..totalWeeks : currentWeek' = week
    /\ UNCHANGED <<campaign, posts, totalWeeks, wpc, threadVars, appVars, weekCall>>

\* FilteredPostsFor computing the week against the posts as the campaign
\* lists them, not against the sorted posts.
FilteredPostsForUnsorted(week) ==
    SelectSeq(posts, LAMBDA post :
        GetWeekFromTimestamp(post.timestamp, PostsData(campaign)) = week)

\* filteredPosts, for a week and for the selected week, and sortedPosts.
FilteredPostsFor(week) ==
    SelectSeq(posts, LAMBDA post : GetWeekFromTimestamp(post.timestamp, posts) = week)
FilteredPosts == FilteredPostsFor(currentWeek)
SortedPosts == SortPosts(FilteredPosts)

\* The inputs (see InitWeek). The campaign starts one day after the epoch; its
\* posts are at the first second and at the last second of each of the weeks
\* 0..MaxWeekIdx after the start; there are also a post before 1970, one at
\* the epoch, and posts with a missing or a malformed timestamp.
CampaignStart == SecPerDay
WeekStart(w) == CampaignStart + (DaysPerWeek * w) * SecPerDay
PostTimes ==
    {WeekStart(w) : w \in 0..MaxWeekIdx}
        \cup {WeekStart(w + 1) - 1 : w \in 0..MaxWeekIdx}
        \cup {0 - SecPerDay, 0}
PostTsVals == {MissingTs, BadTs} \cup {TimeTs(t) : t \in PostTimes}

\* A post list: post i of the input has post_id i.
PostList(tss) == [i \in 1..Len(tss) |-> [post_id |-> i, timestamp |-> tss[i]]]

\* The example of the specification: posts at T0, T0+6d, T0+7d, T0+13d, T0+14d.
ExamplePosts ==
    PostList([i \in 1..5 |->
        TimeTs(CampaignStart + (<<0, 6, 7, 13, 14>>)[i] * SecPerDay)])

\* The campaigns with posts value v: plan.posts is only read when
\* nestedData.posts is missing.
CampaignsWith(v) ==
    {[nested |-> v, plan |-> MissingPosts], [nested |-> MissingPosts, plan |-> v]}

\* The campaigns without a drawn post list: no posts value, one that is no
\* array, and the example.
FixedCampaigns ==
    CampaignsWith(MissingPosts) \cup CampaignsWith(NotArrayPosts)
        \cup CampaignsWith(ArrayPosts(ExamplePosts))

InitWeek ==
    /\ \/ campaign \in FixedCampaigns
       \/ \E n \in 0..MaxPosts : \E tss \in [1..n -> PostTsVals] :
              campaign \in CampaignsWith(ArrayPosts(PostList(tss)))
    /\ posts = <<>>
    /\ totalWeeks = 1
    /\ currentWeek = 1
    /\ wpc = "mounted"
    /\ comments = <<>>
    /\ callStack = <<>>
    /\ out = <<>>
    /\ tpc = "off"
    /\ lastOut = <<>>
    /\ AppNotStarted
    /\ weekCall = NoCall

NextWeek == LoadPosts \/ SetCurrentWeek

SpecWeek == InitWeek /\ [][NextWeek]_vars

\* The calendar rendered more than once: the thread of a post's comments, or
\* the weeks of a campaign's posts, computed and computed again.
InitAgain == InitThread \/ InitWeek

NextAgain ==
    \/ RenderThread
    \/ MapCallback
    \/ Return
    \/ RenderThreadAgain
    \/ LoadPosts
    \/ SetCurrentWeek
    \/ ReloadPosts

SpecAgain == InitAgain /\ [][NextAgain]_vars

-----------------------------------------------------------------------------
(* getWeekFromTimestamp on its own: one call with any timestamp and any    *)
(* list of posts, sorted or not, of this campaign or of another.           *)

\* The call returns the week of its arguments.
CallGetWeekFromTimestamp ==
    /\ weekCall.pc = "called"
    /\ weekCall' =
          [weekCall EXCEPT
              !.pc = "returned",
              !.week = GetWeekFromTimestamp(weekCall.timestamp,
                                            weekCall.sortedPostsArray)]
    /\ UNCHANGED <<threadVars, weekVars, appVars>>

\* The inputs (see InitGetWeek). The timestamp is missing, malformed, or a
\* time around the campaign start: a whole number of weeks before it, one
\* second less or more than that, up to MaxWeeksBefore weeks before, and up to
\* one week after. The list is empty or has one or two posts; its first post
\* has the campaign start, the epoch or no time, and a second post is earlier.
CallTimes ==
    {CampaignStart - (DaysPerWeek * w) * SecPerDay + d :
        w \in 0..MaxWeeksBefore, d \in {0 - 1, 0, 1}}
        \cup {CampaignStart + SecPerDay - 1, WeekStart(1) - 1, WeekStart(1)}
CallTsVals == {MissingTs, BadTs} \cup {TimeTs(t) : t \in CallTimes}
CallFirstTsVals == {MissingTs, BadTs, TimeTs(0), TimeTs(CampaignStart)}
CallLists ==
    {<<>>}
        \cup {PostList(<<ts>>) : ts \in CallFirstTsVals}
        \cup {PostList(<<ts, TimeTs(0 - SecPerDay)>>) : ts \in CallFirstTsVals}

InitGetWeek ==
    /\ \E timestamp \in CallTsVals : \E sortedPostsArray \in CallLists :
          weekCall = [pc |-> "called", timestamp |-> timestamp,
                      sortedPostsArray |-> sortedPostsArray, week |-> 1]
    /\ comments = <<>>
    /\ callStack = <<>>
    /\ out = <<>>
    /\ tpc = "off"
    /\ lastOut = <<>>
    /\ campaign = <<>>
    /\ posts = <<>>
    /\ totalWeeks = 1
    /\ currentWeek = 1
    /\ wpc = "off"
    /\ AppNotStarted

NextGetWeek == CallGetWeekFromTimestamp

SpecGetWeek == InitGetWeek /\ [][NextGetWeek]_vars

-----------------------------------------------------------------------------
(* App, LandingPage and CreateCampaignForm: the campaign list in memory,   *)
(* its copy in localStorage, the views, the requests of the form and the   *)
(* setTimeout callbacks.  One action is one event handler, effect or       *)
(* callback, run to its end with the renders and effects it causes.        *)

\* An absent value (undefined, null) is <<>>, a present value v is <<v>>.
\* a || b for values that are falsy only when absent.
OrElse(a, b) == IF a # <<>> THEN a ELSE b

\* Date.now() read at clock time t: a number.
DateNow(t) == NumId(t)

\* result.campaignId of the response to the n-th submission: the backend
\* gives every campaign it creates an id of its own.
BackendId(n) == StrId(n)

\* The id of the sample campaign, 'sample-demo'.
SampleId == StrId(0)

\* JSON.stringify and JSON.parse of an id: a number is written as a JSON
\* number and a string as a JSON string, and read back as such.
JsonOfId(v) == <<IF v.k = "num" THEN "number" ELSE "string", v.n>>
IdOfJson(j) == [k |-> IF j[1] = "number" THEN "num" ELSE "str", n |-> j[2]]

\* A campaign of the list is [id, data]: data stands for its other fields
\* (companyName, nestedData, campaignId, createdAt, lastUpdated, ...), which
\* App, LandingPage and CreateCampaignForm copy and show but never test.
JsonStringify(list) ==
    [i \in 1..Len(list) |-> [id |-> JsonOfId(list[i].id), data |-> list[i].data]]
JsonParse(text) ==
    [i \in 1..Len(text) |-> [id |-> IdOfJson(text[i].id), data |-> text[i].data]]

\* campaignData of handleSubmit for the response with campaignId cid (absent
\* or present) that arrived at clock time t; data stands for the fields
\* copied from the response.
CampaignData(cid, t, data) ==
    [id |-> OrElse(cid, <<DateNow(t)>>), campaignId |-> cid, data |-> data]

\* newCampaign of handleSubmitCampaign, with an id that depends on the length
\* of the list.
NewCampaignNumbered(campaignData, list, t) ==
    [id |-> NumId(Len(list) + 1), data |-> campaignData.data]

\* newCampaign of handleSubmitCampaign, run at clock time t with the list
\* `list` of its closure.
NewCampaign(campaignData, list, t) ==
    [id |-> OrElse(campaignData.id,
                   OrElse(campaignData.campaignId, <<DateNow(t)>>))[1],
     data |-> campaignData.data]

\* The effect that persists the list: an empty list is not written.
Persist(list, item) ==
    IF Len(list) > 0 THEN <<JsonStringify(list)>> ELSE item

\* handleRefreshCampaigns, and the effect that loads the list on mount: the
\* list in memory becomes the stored list when there is a stored item.
Refreshed(list, item) == IF item # <<>> THEN JsonParse(item[1]) ELSE list

\* The filter with its test the wrong way round: it keeps the campaign.
WithOnlyId(list, campaignId) ==
    FilterSeq(list, {list[i] : i \in {j \in 1..Len(list) : list[j].id = campaignId}})

\* list.filter((c) => c.id !== campaignId) on a list read from localStorage.
WithoutId(list, campaignId) ==
    FilterSeq(list, {list[i] : i \in {j \in 1..Len(list) : list[j].id # campaignId}})

\* The stored item after handleDeleteCampaign(campaignId).
StorageAfterDelete(item, campaignId) ==
    <<JsonStringify(
          WithoutId(IF item # <<>> THEN JsonParse(item[1]) ELSE <<>>, campaignId))>>

\* A reading of the clock that is later than `since`: time does not go back,
\* and two readings may fall into the same millisecond.
ClockReadings(since) == {t \in {now, now + 1} : t > since}

\* The form unmounts: its state is gone, and what its requests and timers do
\* to it later (setIsSubmitting, setProgress, setErrors) has no effect.
Orphaned(fs) == {[f EXCEPT !.live = FALSE] : f \in fs}
OrphanedTimers(ts) == [i \in 1..Len(ts) |-> [ts[i] EXCEPT !.live = FALSE]]

RefreshTimer ==
    [kind |-> "refresh", campaignData |-> <<>>, snap |-> <<>>, live |-> FALSE]
SubmitTimer(campaignData, snap, live) ==
    [kind |-> "submit", campaignData |-> <<campaignData>>, snap |-> snap,
     live |-> live]

\* setTimeout callbacks run in the order of their due times: a callback set
\* for 300 ms runs after every 300 ms callback set before it, a callback set
\* for 800 ms after every callback set before it.
Due(i) ==
    /\ i \in 1..Len(timers)
    /\ \A j \in 1..(i - 1) :
          timers[i].kind = "submit" /\ timers[j].kind = "refresh"
RemoveAt(seq, i) == SubSeq(seq, 1, i - 1) \o SubSeq(seq, i + 1, Len(seq))
PendingRefreshes == Cardinality({i \in 1..Len(timers) : timers[i].kind = "refresh"})

\* progress counts thirds of a percent: the interval adds (100 / 600) * 2 of a
\* percent, which is one third; it stops at 98 percent; 100 is set at the end.
ProgressIncrement == 1
ProgressCap == 294
ProgressDone == 300

\* LandingPage: "Create Campaign" (handleCreateCampaign); the form mounts
\* and LandingPage unmounts.
CreateCampaign ==
    /\ view = "landing"
    /\ view' = "create"
    /\ isSubmitting' = FALSE
    /\ errors' = NoErrors
    /\ progress' = 0
    /\ deleting' = <<>>
    /\ error' = <<>>
    /\ success' = <<>>
    /\ UNCHANGED <<lastConfirm, intervals,
                   campaigns, selectedCampaignId, storage, fetches, timers, now,
                   created, deleted, threadVars, weekVars, weekCall>>

\* CreateCampaignForm: "Cancel" (handleCancelCreate); the overlay covers the
\* form while isSubmitting.
CancelCreate ==
    /\ view = "create"
    /\ ~ isSubmitting
    /\ view' = "landing"
    /\ fetches' = Orphaned(fetches)
    /\ timers' = OrphanedTimers(timers)
    /\ errors' = NoErrors
    /\ progress' = 0
    /\ UNCHANGED <<landingVars, intervals,
                   campaigns, selectedCampaignId, storage, isSubmitting, now,
                   created, deleted, threadVars, weekVars, weekCall>>

\* CreateCampaignForm.handleSubmit up to its await, for a form that passes
\* validateForm: the request is sent; onSubmit of this render is the
\* handleSubmitCampaign that holds the present list.
SubmitForm ==
    /\ view = "create"
    /\ ~ isSubmitting
    /\ created < MaxCampaigns
    /\ isSubmitting' = TRUE
    /\ created' = created + 1
    /\ fetches' = fetches \cup
          {[data |-> created + 1, snap |-> campaigns, live |-> TRUE, start |-> now]}
    /\ errors' = NoErrors
    /\ progress' = 0
    /\ intervals' = intervals \cup {created + 1}
    /\ UNCHANGED <<landingVars,
                   view, campaigns, selectedCampaignId, storage, timers, now,
                   deleted, threadVars, weekVars, weekCall>>

\* SubmitInvalidForm without the early return: the errors are set and the
\* request is sent all the same.
SubmitInvalidFormSent ==
    /\ view = "create"
    /\ ~ isSubmitting
    /\ created < MaxCampaigns
    /\ intervals' = intervals \cup {created + 1}
    /\ errors' = FieldErrors
    /\ progress' = 0
    /\ isSubmitting' = TRUE
    /\ created' = created + 1
    /\ fetches' = fetches \cup
          {[data |-> created + 1, snap |-> campaigns, live |-> TRUE, start |-> now]}
    /\ UNCHANGED <<view, campaigns, selectedCampaignId, storage, timers, now,
                   deleted, landingVars, threadVars, weekVars, weekCall>>

\* CreateCampaignForm.handleSubmit for a form in which validateForm finds an
\* error: the interval is set and cleared, the errors are set, and the
\* handler returns before the request; finally runs as well.
SubmitInvalidForm ==
    /\ view = "create"
    /\ ~ isSubmitting
    /\ intervals' = (intervals \cup {0}) \ {0}
    /\ errors' = FieldErrors
    /\ progress' = 0
    /\ isSubmitting' = FALSE
    /\ UNCHANGED <<view, campaigns, selectedCampaignId, storage, fetches, timers,
                   now, created, deleted, landingVars, threadVars, weekVars,
                   weekCall>>

\* A tick of the interval of a submission that awaits its response, every
\* 2000 ms: the progress of its form grows by (100 / 600) * 2, up to 98.
ProgressTick ==
    \E f \in fetches :
        /\ f.live
        /\ f.data \in intervals
        /\ progress < MaxTicks * ProgressIncrement
        /\ progress' = IF progress + ProgressIncrement < ProgressCap
                       THEN progress + ProgressIncrement ELSE ProgressCap
        /\ UNCHANGED <<view, campaigns, selectedCampaignId, storage, isSubmitting,
                       fetches, timers, now, created, deleted, landingVars,
                       errors, intervals, threadVars, weekVars, weekCall>>

\* handleSubmit after its await, the response being ok: campaignData is
\* built, onSubmit is set for 300 ms later, and finally resets isSubmitting.
FetchOk ==
    \E f \in fetches : \E hasId \in BOOLEAN : \E t \in ClockReadings(f.start) :
        /\ fetches' = fetches \ {f}
        /\ now' = t
        /\ timers' = Append(timers,
              SubmitTimer(CampaignData(IF hasId THEN <<BackendId(f.data)>> ELSE <<>>,
                                       t, f.data),
                          f.snap, f.live))
        /\ isSubmitting' = IF f.live THEN FALSE ELSE isSubmitting
        /\ intervals' = intervals \ {f.data}
        /\ progress' = IF f.live THEN ProgressDone ELSE progress
        /\ UNCHANGED <<landingVars, errors,
                       view, campaigns, selectedCampaignId, storage, created,
                       deleted, threadVars, weekVars, weekCall>>

\* handleSubmit after its await, the request having failed: catch, finally.
FetchFail ==
    \E f \in fetches :
        /\ fetches' = fetches \ {f}
        /\ isSubmitting' = IF f.live THEN FALSE ELSE isSubmitting
        /\ intervals' = intervals \ {f.data}
        /\ errors' = IF f.live THEN SubmitError ELSE errors
        /\ progress' = IF f.live THEN 0 ELSE progress
        /\ UNCHANGED <<landingVars,
                       view, campaigns, selectedCampaignId, storage, timers, now,
                       created, deleted, threadVars, weekVars, weekCall>>

\* The 300 ms callback: onSubmit(campaignData), which is handleSubmitCampaign
\* with the list of its closure; the effect persists the new list; the view
\* becomes 'landing', which unmounts the form.
SubmitTimerFires ==
    \E i \in 1..Len(timers) :
        /\ Due(i)
        /\ timers[i].kind = "submit"
        /\ campaigns' = Append(timers[i].snap,
                               NewCampaign(timers[i].campaignData[1], timers[i].snap,
                                           now + 1))
        /\ storage' = Persist(campaigns', storage)
        /\ view' = "landing"
        /\ isSubmitting' = IF view = "create" THEN FALSE ELSE isSubmitting
        /\ fetches' = IF view = "create" THEN Orphaned(fetches) ELSE fetches
        /\ timers' = IF view = "create" THEN OrphanedTimers(RemoveAt(timers, i))
                     ELSE RemoveAt(timers, i)
        /\ errors' = IF view = "create" THEN NoErrors ELSE errors
        /\ progress' = IF view = "create" THEN 0 ELSE progress
        /\ UNCHANGED <<landingVars, intervals,
                       selectedCampaignId, now, created, deleted, threadVars,
                       weekVars, weekCall>>

\* LandingPage.handleDeleteCampaign for the card of campaigns[i], the user
\* confirming: the stored list is filtered and written back, and the refresh
\* is set for 800 ms later.
ConfirmDelete ==
    \E i \in 1..Len(campaigns) :
        /\ view = "landing"
        /\ PendingRefreshes < MaxRefreshTimers
        /\ storage' = StorageAfterDelete(storage, campaigns[i].id)
        /\ timers' = Append(timers, RefreshTimer)
        /\ deleted' = deleted \cup {campaigns[i].data}
        /\ deleting' = <<>>
        /\ success' = <<campaigns[i].data>>
        /\ lastConfirm' = <<TRUE>>
        /\ UNCHANGED <<error, formVars,
                       view, campaigns, selectedCampaignId, isSubmitting, fetches,
                       now, created, threadVars, weekVars, weekCall>>

\* DeclineDelete deleting all the same: the answer of window.confirm is not
\* looked at.
DeclineDeleteDeletes ==
    \E i \in 1..Len(campaigns) :
        /\ view = "landing"
        /\ PendingRefreshes < MaxRefreshTimers
        /\ lastConfirm' = <<FALSE>>
        /\ storage' = StorageAfterDelete(storage, campaigns[i].id)
        /\ timers' = Append(timers, RefreshTimer)
        /\ deleting' = <<>>
        /\ success' = <<campaigns[i].data>>
        /\ UNCHANGED <<view, campaigns, selectedCampaignId, isSubmitting, fetches,
                       now, created, deleted, error, formVars, threadVars,
                       weekVars, weekCall>>

\* LandingPage.handleDeleteCampaign for the card of campaigns[i], the user
\* declining: the handler returns at once.
DeclineDelete ==
    \E i \in 1..Len(campaigns) :
        /\ view = "landing"
        /\ lastConfirm' = <<FALSE>>
        /\ UNCHANGED <<view, campaigns, selectedCampaignId, storage, isSubmitting,
                       fetches, timers, now, created, deleted, deleting, error,
                       success, formVars, threadVars, weekVars, weekCall>>

\* The 800 ms callback of handleDeleteCampaign: onRefreshCampaigns(), and the
\* persist effect for the list it sets.
RefreshTimerFires ==
    \E i \in 1..Len(timers) :
        /\ Due(i)
        /\ timers[i].kind = "refresh"
        /\ campaigns' = Refreshed(campaigns, storage)
        /\ storage' = Persist(campaigns', storage)
        /\ timers' = RemoveAt(timers, i)
        /\ success' = <<>>
        /\ UNCHANGED <<deleting, error, lastConfirm, formVars,
                       view, selectedCampaignId, isSubmitting, fetches, now,
                       created, deleted, threadVars, weekVars, weekCall>>

\* LandingPage: "Refresh" (handleRefreshCampaigns).
RefreshCampaigns ==
    /\ view = "landing"
    /\ campaigns' = Refreshed(campaigns, storage)
    /\ storage' = Persist(campaigns', storage)
    /\ UNCHANGED <<landingVars, formVars,
                   view, selectedCampaignId, isSubmitting, fetches, timers, now,
                   created, deleted, threadVars, weekVars, weekCall>>

\* LandingPage: "View Plan" of the card of campaigns[i], or "View Sample
\* Plan" (handleSelectCampaign).
SelectCampaign ==
    \E id \in {campaigns[i].id : i \in 1..Len(campaigns)} \cup {SampleId} :
        /\ view = "landing"
        /\ selectedCampaignId' = <<id>>
        /\ view' = "calendar"
        /\ deleting' = <<>>
        /\ error' = <<>>
        /\ success' = <<>>
        /\ UNCHANGED <<lastConfirm, formVars,
                       campaigns, storage, isSubmitting, fetches, timers, now,
                       created, deleted, threadVars, weekVars, weekCall>>

\* CampaignCalendar: "Back" (handleBackToLanding).
BackToLanding ==
    /\ view = "calendar"
    /\ selectedCampaignId' = <<>>
    /\ view' = "landing"
    /\ UNCHANGED <<landingVars, formVars,
                   campaigns, storage, isSubmitting, fetches, timers, now,
                   created, deleted, threadVars, weekVars, weekCall>>

\* selectedCampaign of App: the sample, or campaigns.find by id; <<>> when
\* find returns undefined.
SelectedCampaign ==
    IF selectedCampaignId = <<SampleId>> THEN <<SampleId>>
    ELSE IF \E i \in 1..Len(campaigns) : <<campaigns[i].id>> = selectedCampaignId
         THEN <<(CHOOSE i \in 1..Len(campaigns) :
                    /\ <<campaigns[i].id>> = selectedCampaignId
                    /\ \A j \in 1..(i - 1) : <<campaigns[j].id>> # selectedCampaignId)>>
         ELSE <<>>

\* A campaign of an earlier session, the n-th one, with an id of the backend
\* or of the clock.
StoredCampaign(n, byBackend) ==
    [id |-> IF byBackend THEN BackendId(n) ELSE DateNow(n), data |-> n]

\* The lists found in localStorage on mount: none, and the lists of one
\* campaign.
StoredLists ==
    {<<>>, <<StoredCampaign(1, TRUE)>>, <<StoredCampaign(1, FALSE)>>}

\* App on mount: the stored list of an earlier session, if any, is loaded.
InitApp ==
    /\ \E list \in StoredLists :
          /\ storage = IF list = <<>> THEN <<>> ELSE <<JsonStringify(list)>>
          /\ campaigns = Refreshed(<<>>, storage)
          /\ now = Len(list)
          /\ created = Len(list)
    /\ view = "landing"
    /\ selectedCampaignId = <<>>
    /\ isSubmitting = FALSE
    /\ fetches = {}
    /\ timers = <<>>
    /\ deleted = {}
    /\ deleting = <<>>
    /\ error = <<>>
    /\ success = <<>>
    /\ lastConfirm = <<>>
    /\ errors = NoErrors
    /\ progress = 0
    /\ intervals = {}
    /\ comments = <<>>
    /\ callStack = <<>>
    /\ out = <<>>
    /\ tpc = "off"
    /\ lastOut = <<>>
    /\ campaign = <<>>
    /\ posts = <<>>
    /\ totalWeeks = 1
    /\ currentWeek = 1
    /\ wpc = "off"
    /\ weekCall = NoCall

NextApp ==
    \/ CreateCampaign
    \/ CancelCreate
    \/ SubmitForm
    \/ FetchOk
    \/ FetchFail
    \/ SubmitTimerFires
    \/ ConfirmDelete
    \/ RefreshTimerFires
    \/ RefreshCampaigns
    \/ SelectCampaign
    \/ BackToLanding

SpecApp == InitApp /\ [][NextApp]_vars

\* CreateCampaignForm from its mount to its unmount, with the state of the
\* form itself: submissions that validateForm stops, and the progress interval.
NextForm ==
    \/ CreateCampaign
    \/ CancelCreate
    \/ SubmitForm
    \/ SubmitInvalidForm
    \/ ProgressTick
    \/ FetchOk
    \/ FetchFail
    \/ SubmitTimerFires

SpecForm == InitApp /\ [][NextForm]_vars

\* LandingPage over the lists of an earlier session, of up to MaxCampaigns
\* campaigns, with both answers to the delete confirmation.
InitLanding ==
    /\ \E n \in 0..MaxCampaigns : \E byBackend \in [1..n -> BOOLEAN] :
          LET list == [i \in 1..n |-> StoredCampaign(i, byBackend[i])]
          IN /\ storage = IF list = <<>> THEN <<>> ELSE <<JsonStringify(list)>>
             /\ campaigns = Refreshed(<<>>, storage)
             /\ now = n
             /\ created = n
    /\ view = "landing"
    /\ selectedCampaignId = <<>>
    /\ isSubmitting = FALSE
    /\ fetches = {}
    /\ timers = <<>>
    /\ deleted = {}
    /\ deleting = <<>>
    /\ error = <<>>
    /\ success = <<>>
    /\ lastConfirm = <<>>
    /\ errors = NoErrors
    /\ progress = 0
    /\ intervals = {}
    /\ comments = <<>>
    /\ callStack = <<>>
    /\ out = <<>>
    /\ tpc = "off"
    /\ lastOut = <<>>
    /\ campaign = <<>>
    /\ posts = <<>>
    /\ totalWeeks = 1
    /\ currentWeek = 1
    /\ wpc = "off"
    /\ weekCall = NoCall

NextLanding ==
    \/ ConfirmDelete
    \/ DeclineDelete
    \/ RefreshTimerFires
    \/ RefreshCampaigns
    \/ SelectCampaign
    \/ BackToLanding

SpecLanding == InitLanding /\ [][NextLanding]_vars

-----------------------------------------------------------------------------
(* Properties of renderCommentThread.                                      *)

NormParentOf(i) == Norm(comments[i].parent_comment_id)
NormIdOf(i) == Norm(comments[i].comment_id)
CommentIdx == 1..Len(comments)

\* Comment i names comment j as its parent.
ParentEdge(i, j) == NormParentOf(i) # NormNull /\ NormParentOf(i) = NormIdOf(j)

RECURSIVE AncestorClosure(_, _)
AncestorClosure(S, k) ==
    IF k = 0 THEN S
    ELSE AncestorClosure(
             S \cup {j \in CommentIdx : \E i \in S : ParentEdge(i, j)}, k - 1)

Ancestors(i) ==
    AncestorClosure({j \in CommentIdx : ParentEdge(i, j)}, Len(comments))

AcyclicParents == \A i \in CommentIdx : i \notin Ancestors(i)

\* The parent id of comment i matches no comment id of the list.
Dangling(i) ==
    NormParentOf(i) # NormNull /\ ~ \E j \in CommentIdx : ParentEdge(i, j)

AllParentsResolve == \A i \in CommentIdx : ~ Dangling(i)

\* How often comment i was rendered.
Emitted(i) == Cardinality({p \in 1..Len(out) : out[p].c = i})

\* The block of the entry at position q of out: the positions after q up to the
\* next entry that is not deeper than q.
InBlock(q, p) ==
    /\ q < p
    /\ \A r \in (q + 1)..p : out[r].depth > out[q].depth

\* C1: for every comment list with acyclic parent pointers (also one with a
\* missing, null or blank comment_id, a missing or malformed timestamp or a
\* dangling parent id) renderCommentThread(comments, null, 0) terminates with
\* a sequence and does not fail.
C1_RenderTerminates == AcyclicParents => tpc # "overflow"

\* C2: when the parent graph is acyclic and every non-null parent id refers to
\* a comment of the list, every comment is rendered exactly once (never twice,
\* and once when the call has returned); a comment with a dangling parent id
\* is never rendered, and neither are its descendants.
C2_EveryCommentOnce ==
    /\ (AcyclicParents /\ AllParentsResolve) =>
          /\ tpc # "overflow"
          /\ \A i \in CommentIdx : Emitted(i) <= 1
          /\ tpc = "done" => \A i \in CommentIdx : Emitted(i) = 1
    /\ \A i \in CommentIdx :
          (Dangling(i) \/ \E j \in Ancestors(i) : Dangling(j)) => Emitted(i) = 0

\* C3: in the rendered sequence a root is at depth 0; a reply is at its
\* parent's depth + 1, inside its parent's block (after the parent, with
\* nothing but that block between them); when the call has returned, the block
\* of a rendered comment holds all its replies, so that the whole subtree
\* comes before the next sibling; the example yields 3 (depth 0), 1 (depth 0),
\* 2 (depth 1).
C3_PreOrder ==
    /\ \A p \in 1..Len(out) :
          /\ out[p].depth = 0 => NormParentOf(out[p].c) = NormNull
          /\ out[p].depth > 0 =>
                \E q \in 1..(p - 1) :
                    /\ out[q].depth + 1 = out[p].depth
                    /\ InBlock(q, p)
                    /\ NormParentOf(out[p].c) = NormIdOf(out[q].c)
    /\ tpc = "done" =>
          /\ \A i \in CommentIdx :
                NormParentOf(i) = NormNull =>
                    \E p \in 1..Len(out) : out[p].c = i /\ out[p].depth = 0
          /\ \A q \in 1..Len(out) : \A i \in CommentIdx :
                NormParentOf(i) = NormIdOf(out[q].c) =>
                    \E p \in 1..Len(out) :
                        /\ InBlock(q, p)
                        /\ out[p].c = i
                        /\ out[p].depth = out[q].depth + 1
    /\ (tpc = "done" /\ comments = ExampleComments) =>
          out = <<[c |-> 3, depth |-> 0], [c |-> 1, depth |-> 0],
                  [c |-> 2, depth |-> 1]>>

\* A rendered thread in which a reply's block is followed by the next sibling
\* of the reply's parent.
C3_Witness ==
    /\ tpc = "done"
    /\ \E p \in 2..(Len(out) - 1) :
          /\ out[p].depth = 1
          /\ out[p - 1].depth = 0
          /\ out[p + 1].depth = 0

\* Two entries of out rendered by the same call: the same depth, and no
\* shallower entry between them.
SameCall(p, q) ==
    /\ p < q
    /\ out[p].depth = out[q].depth
    /\ \A r \in p..q : out[r].depth >= out[p].depth

\* The parsed timestamp of a comment as the claim counts it: 0 when it is
\* missing or malformed.
ParsedOrEpoch(i) ==
    IF comments[i].timestamp.k = "time" THEN comments[i].timestamp.t ELSE 0

DistinctIds ==
    \A i, j \in CommentIdx :
        (i # j /\ NormIdOf(i) # NormNull) => NormIdOf(i) # NormIdOf(j)

\* C4: the comments rendered under one parent appear in ascending order of
\* parsed timestamp, a missing or malformed timestamp counting as 0; in the
\* output of a call that returned, when the comment ids are distinct, this is
\* every pair of rendered comments with the same normalized parent id.
C4_SiblingsAscending ==
    /\ \A p, q \in 1..Len(out) :
          SameCall(p, q) =>
              ParsedOrEpoch(out[p].c) <= ParsedOrEpoch(out[q].c)
    /\ (tpc = "done" /\ DistinctIds) =>
          \A p, q \in 1..Len(out) :
              (p < q /\ NormParentOf(out[p].c) = NormParentOf(out[q].c)) =>
                  ParsedOrEpoch(out[p].c) <= ParsedOrEpoch(out[q].c)

\* A rendered thread in which the sort moved a reply with a malformed
\* timestamp in front of an earlier-listed sibling.
C4_Witness ==
    /\ tpc = "done"
    /\ \E p, q \in 1..Len(out) :
          /\ SameCall(p, q)
          /\ out[p].depth > 0
          /\ out[p].c > out[q].c
          /\ comments[out[p].c].timestamp.k = "bad"
          /\ comments[out[q].c].timestamp.k = "time"

RootLevel(v) == v.k \in {"null", "blank"}
SameIdText(a, b) == ~ RootLevel(a) /\ ~ RootLevel(b) /\ a.n = b.n

ParentIdOf(p) == comments[out[p].c].parent_comment_id
CommentIdOf(p) == comments[out[p].c].comment_id

\* The entry of out under which the entry at position p was rendered: the
\* last entry before p that is one level higher.
EnclosingEntry(q, p) ==
    /\ q < p
    /\ out[q].depth + 1 = out[p].depth
    /\ \A r \in (q + 1)..(p - 1) : out[r].depth >= out[p].depth

\* C12: parent matching normalizes both sides the same way.  A comment whose
\* parent id is null, missing or blank is rendered at the root level, and no
\* other comment is; a rendered reply with a parent id stands under a comment
\* whose id has the same trimmed string form, and when the call has returned
\* every comment whose parent id has the trimmed string form of a rendered
\* comment's id stands under it, whether the two are written as a number, as
\* a string or as a string with blanks around it.
C12_ParentMatching ==
    /\ \A p \in 1..Len(out) :
          /\ out[p].depth = 0 => RootLevel(ParentIdOf(p))
          /\ (out[p].depth > 0 /\ ~ RootLevel(ParentIdOf(p))) =>
                \E q \in 1..(p - 1) :
                    EnclosingEntry(q, p) /\ SameIdText(ParentIdOf(p), CommentIdOf(q))
    /\ tpc = "done" =>
          /\ \A i \in CommentIdx :
                RootLevel(comments[i].parent_comment_id) =>
                    \E p \in 1..Len(out) : out[p].c = i /\ out[p].depth = 0
          /\ \A q \in 1..Len(out) : \A i \in CommentIdx :
                SameIdText(comments[i].parent_comment_id, CommentIdOf(q)) =>
                    \E p \in (q + 1)..Len(out) :
                        out[p].c = i /\ EnclosingEntry(q, p)

\* A rendered thread with a reply whose parent id is a string (plain or with
\* blanks around it) under a comment whose id is a number, and a reply whose
\* parent id is a number under a comment whose id is a string.
C12_Witness ==
    /\ tpc = "done"
    /\ \E p, q \in 1..Len(out) :
          /\ EnclosingEntry(q, p)
          /\ ParentIdOf(p).k \in {"str", "pad"}
          /\ CommentIdOf(q).k = "num"
    /\ \E p, q \in 1..Len(out) :
          /\ EnclosingEntry(q, p)
          /\ ParentIdOf(p).k = "num"
          /\ CommentIdOf(q).k \in {"str", "pad"}

\* A comment on a cycle of parent pointers: it is among its own ancestors.
OnCycle(i) == i \in Ancestors(i)

\* A comment without id: comment_id is null, missing or blank, so that the
\* recursive call for its replies is a root-level call.
NoCommentId(i) == RootLevel(comments[i].comment_id)

\* C15 as stated: a comment list with a comment that is its own parent, or
\* with any other cycle among the parent pointers, makes
\* renderCommentThread(comments, null, 0) recurse without bound, so the call
\* never returns.
C15_CycleRecursesForever == (~ AcyclicParents) => tpc # "done"

\* C15, amended: the call recurses without bound exactly when it renders a
\* comment on a cycle of parent pointers or a comment without comment_id.  A
\* call that returned rendered no comment on a cycle: a cycle none of whose
\* comments is rendered (every cycle among comments with distinct ids, a
\* comment that is its own parent included) is left out of the output, and
\* the call returns.
C15_CycleRenderedOrSkipped ==
    /\ tpc = "done" =>
          \A i \in CommentIdx : (OnCycle(i) \/ NoCommentId(i)) => Emitted(i) = 0
    /\ (tpc = "done" /\ DistinctIds) =>
          \A i \in CommentIdx : \A j \in Ancestors(i) : OnCycle(j) => Emitted(i) = 0
    /\ tpc = "overflow" =>
          \E i \in CommentIdx : Emitted(i) > 0 /\ (OnCycle(i) \/ NoCommentId(i))

\* A call that returned for a list with a comment that is its own parent and
\* a rendered root.
C15_Witness ==
    /\ tpc = "done"
    /\ out # <<>>
    /\ \E i \in CommentIdx : ParentEdge(i, i)

-----------------------------------------------------------------------------
(* Properties of the campaign list.                                        *)

\* The stored list as it is written in localStorage, [] when there is no item.
StoredList == IF storage = <<>> THEN <<>> ELSE storage[1]

\* The campaigns (named by their data) in memory and in the stored list.
InMemory == {campaigns[i].data : i \in 1..Len(campaigns)}
InStorage == {StoredList[i].data : i \in 1..Len(StoredList)}

\* The ids of a list differ pairwise.
DistinctCampaignIds(list) ==
    \A i, j \in 1..Len(list) : i # j => list[i].id # list[j].id

\* The id a JSON entry is read back with, as the claim counts it: the same
\* number or the same string.
StoredId(e) == IF e.id[1] = "number" THEN NumId(e.id[2]) ELSE StrId(e.id[2])

\* C13: the ids of the campaigns in the list differ pairwise, in memory and in
\* the stored list, and a campaign keeps the id it was added with: one step
\* later it has the same id in memory, and the stored list holds it under the
\* same id.
C13_UniqueStableIds ==
    [][/\ DistinctCampaignIds(campaigns)
       /\ DistinctCampaignIds(StoredList)
       /\ \A i \in 1..Len(campaigns) : \A j \in 1..Len(campaigns') :
             campaigns[i].data = campaigns'[j].data =>
                 campaigns[i].id = campaigns'[j].id
       /\ \A i \in 1..Len(campaigns) : \A j \in 1..Len(StoredList) :
             campaigns[i].data = StoredList[j].data =>
                 campaigns[i].id = StoredId(StoredList[j])]_vars

\* A list of two or more campaigns, with an id of the backend and an id of
\* the clock, in memory and read back from localStorage.
C13_Witness ==
    /\ Len(campaigns) >= 2
    /\ Len(StoredList) = Len(campaigns)
    /\ \E i \in 1..Len(campaigns) : campaigns[i].id.k = "num"
    /\ \E i \in 1..Len(campaigns) : campaigns[i].id.k = "str"

\* A step of handleDeleteCampaign with the user confirming: it sets a refresh.
DeleteStep == PendingRefreshes' > PendingRefreshes
\* A step of the 800 ms callback.
RefreshStep == PendingRefreshes' < PendingRefreshes

\* C14: a confirmed delete of campaign X takes X, and nothing else, out of the
\* stored list: the list written back is the stored list without X, every
\* other entry as it was and in the same order.
C14_DeleteRemovesOnlyX ==
    [][DeleteStep =>
          \E x \in deleted' :
              /\ deleted' # deleted => x \notin deleted
              /\ storage' # <<>>
              /\ StoredList' = SelectSeq(StoredList, LAMBDA e : e.data # x)]_vars

\* A confirmed delete that left another campaign in the stored list.
C14_Witness ==
    /\ deleted # {}
    /\ PendingRefreshes > 0
    /\ StoredList # <<>>
    /\ deleted \cap InStorage = {}

\* C16: a campaign whose deletion the user confirmed is never again in the
\* stored list.
C16_DeletedStaysDeleted == deleted \cap InStorage = {}

\* C17: a campaign of the list that the user did not delete is still in the
\* list one step later, in memory and in the stored list, whatever the step
\* is: a submission that completes, a refresh.
C17_AddedStays ==
    [][\A d \in InMemory :
          d \notin deleted' => (d \in InMemory' /\ d \in InStorage')]_vars

\* C18: while the view is 'calendar', selectedCampaignId is the id of the
\* sample or of a campaign of the list in memory.
C18_CalendarHasCampaign ==
    view = "calendar" =>
        \/ selectedCampaignId = <<SampleId>>
        \/ \E i \in 1..Len(campaigns) : <<campaigns[i].id>> = selectedCampaignId

\* A submission of the mounted form that has neither failed nor handed its
\* campaign to onSubmit.
SubmissionUnderWay ==
    \/ \E f \in fetches : f.live
    \/ \E i \in 1..Len(timers) : timers[i].kind = "submit" /\ timers[i].live

\* C19: while a submission of the form is under way, isSubmitting is true, and
\* the form starts no second submission and is not cancelled: the view
\* changes only when onSubmit runs.
C19_SubmittingUntilHandedOver ==
    [][SubmissionUnderWay =>
          /\ isSubmitting
          /\ created' = created
          /\ view' # view => Len(timers') < Len(timers)]_vars

\* C20: when the 800 ms callback of a confirmed delete has run the refresh,
\* the list in memory holds no campaign whose deletion was confirmed, and is
\* empty when the deleted campaign was the only one.
C20_RefreshDropsDeleted ==
    [][RefreshStep => InMemory' \cap deleted = {}]_vars

-----------------------------------------------------------------------------
(* Properties of the weeks.                                                *)

\* The timestamp of the post parses to a valid date.
Parseable(post) == post.timestamp.k = "time"

\* The week of a post of the campaign, computed against the campaign's own
\* sorted post list, as filteredPosts computes it.
WeekOf(post) == GetWeekFromTimestamp(post.timestamp, posts)

PostSet == SeqRange(posts)
ParseablePosts == {post \in PostSet : Parseable(post)}
EarliestParseable ==
    CHOOSE post \in ParseablePosts :
        \A other \in ParseablePosts : post.timestamp.t <= other.timestamp.t

\* The seconds from the reference post (the first post of the sort) to post.
SinceReference(post) == post.timestamp.t - posts[1].timestamp.t

\* C5: when the reference post (the first post of the ascending sort) and post
\* P both have parseable timestamps, week(P) = floor(floor((Tp - T0) / 86400 s)
\* / 7) + 1, that is P is in week w exactly when 7 (w - 1) days <= Tp - T0 <
\* 7 w days: week 1 for 0 to 6 days, weeks 2, 3, 4 for exactly 7, 14, 21 days;
\* the example gets the weeks 1, 1, 2, 2, 3 and totalWeeks 3.
C5_WeekFormula ==
    wpc = "loaded" =>
        /\ \A post \in PostSet :
              (Parseable(posts[1]) /\ Parseable(post)) =>
                  /\ (WeekOf(post) - 1) * 604800 <= SinceReference(post)
                  /\ SinceReference(post) < WeekOf(post) * 604800
                  /\ SinceReference(post) = 7 * 86400 => WeekOf(post) = 2
                  /\ SinceReference(post) = 14 * 86400 => WeekOf(post) = 3
                  /\ SinceReference(post) = 21 * 86400 => WeekOf(post) = 4
                  /\ (0 <= SinceReference(post) /\ SinceReference(post) < 7 * 86400)
                        => WeekOf(post) = 1
        /\ PostsData(campaign) = ExamplePosts =>
              /\ \A k \in 1..5 : WeekOf(posts[k]) = (<<1, 1, 2, 2, 3>>)[posts[k].post_id]
              /\ totalWeeks = 3

\* Loaded posts of which one is exactly 21 days after a parseable reference.
C5_Witness ==
    /\ wpc = "loaded"
    /\ posts # <<>>
    /\ Parseable(posts[1])
    /\ \E post \in PostSet :
          Parseable(post) /\ SinceReference(post) = 21 * 86400 /\ WeekOf(post) = 4

\* C6: every post with a parseable timestamp gets the week floor(days since
\* the earliest parseable post timestamp / 7) + 1, also when other posts of
\* the campaign have a missing or malformed timestamp.
C6_WeekFromEarliestParseable ==
    wpc = "loaded" =>
        \A post \in ParseablePosts :
            WeekOf(post) =
                (((post.timestamp.t - EarliestParseable.timestamp.t) \div 86400) \div 7) + 1

\* C7: totalWeeks is the maximum of the weeks computed for the posts and at
\* least 1; it is 1 for an empty post set, a posts value that is no array and
\* a set in which no timestamp parses.
C7_TotalWeeksIsMax ==
    wpc = "loaded" =>
        /\ totalWeeks >= 1
        /\ \A post \in PostSet : WeekOf(post) <= totalWeeks
        /\ posts # <<>> => \E post \in PostSet : WeekOf(post) = totalWeeks
        /\ posts = <<>> => totalWeeks = 1
        /\ (campaign.nested.k = "notarray"
              \/ (campaign.nested.k = "missing" /\ campaign.plan.k # "array"))
                  => (posts = <<>> /\ totalWeeks = 1)
        /\ ParseablePosts = {} => totalWeeks = 1

\* Loaded posts whose weeks are 1 and 3 and no other, totalWeeks being 3.
C7_Witness ==
    /\ wpc = "loaded"
    /\ totalWeeks = 3
    /\ {WeekOf(post) : post \in PostSet} = {1, 3}

\* C8: the week of every post of the campaign, computed against the campaign's
\* sorted post list, is in 1..totalWeeks, so that the post is in the filtered
\* list of exactly one of the week tabs 1..totalWeeks, and is displayed when
\* that week is selected.
C8_WeekWithinTabs ==
    wpc = "loaded" =>
        /\ Len(posts) = Len(PostsData(campaign))
        /\ \A post \in PostSet :
              /\ 1 <= WeekOf(post)
              /\ WeekOf(post) <= totalWeeks
              /\ Cardinality({week \in 1..totalWeeks :
                                 post \in SeqRange(FilteredPostsFor(week))}) = 1
              /\ post \in SeqRange(SortedPosts) <=> WeekOf(post) = currentWeek

\* A calendar with a post before 1970 and a post without a parseable
\* timestamp, showing a week after the first.
C8_Witness ==
    /\ wpc = "loaded"
    /\ currentWeek > 1
    /\ SortedPosts # <<>>
    /\ \E post \in ParseablePosts : post.timestamp.t < 0
    /\ \E post \in PostSet : ~ Parseable(post)

\* C9: when some post has a parseable timestamp, the post with the earliest
\* parseable timestamp is in week 1, whatever the other timestamps (missing,
\* malformed, before 1970).
C9_EarliestIsWeekOne ==
    wpc = "loaded" =>
        \A post \in ParseablePosts :
            (\A other \in ParseablePosts : post.timestamp.t <= other.timestamp.t)
                => WeekOf(post) = 1

\* Loaded posts whose earliest parseable post comes last in the input, after a
\* later post and a post with a malformed timestamp.
C9_Witness ==
    /\ wpc = "loaded"
    /\ Len(posts) = 3
    /\ \E post \in ParseablePosts :
          /\ post.post_id = 3
          /\ \A other \in ParseablePosts \ {post} :
                post.timestamp.t < other.timestamp.t
          /\ ParseablePosts # {post}
    /\ \E post \in PostSet : post.timestamp.k = "bad"

\* C10: every post whose timestamp is missing, empty or unparseable is in
\* week 1, whatever the other posts' timestamps, and is kept in the calendar
\* (it is among the posts of the week 1 tab).
C10_UnparseableIsWeekOne ==
    wpc = "loaded" =>
        /\ \A post \in PostSet :
              ~ Parseable(post) =>
                  /\ WeekOf(post) = 1
                  /\ post \in SeqRange(FilteredPostsFor(1))
        /\ \A post \in SeqRange(PostsData(campaign)) : post \in PostSet

\* A calendar of several weeks, showing week 1 with a post whose timestamp is
\* malformed.
C10_Witness ==
    /\ wpc = "loaded"
    /\ totalWeeks > 1
    /\ currentWeek = 1
    /\ \E post \in SeqRange(SortedPosts) : post.timestamp.k = "bad"

\* The time the claims sort a post by: its parsed timestamp, the epoch when it
\* has none.
TimeOrEpoch(post) == IF Parseable(post) THEN post.timestamp.t ELSE 0

\* The campaign's posts as the campaign lists them.
CampaignPosts == PostsData(campaign)

\* The reference post of the whole campaign: the post of the least time, the
\* first listed of them when several have it.
IsReference(i) ==
    /\ i \in 1..Len(CampaignPosts)
    /\ \A j \in 1..Len(CampaignPosts) :
          /\ TimeOrEpoch(CampaignPosts[i]) <= TimeOrEpoch(CampaignPosts[j])
          /\ j < i => TimeOrEpoch(CampaignPosts[j]) > TimeOrEpoch(CampaignPosts[i])

\* post is in week w of the whole campaign with reference post ref: week 1
\* when one of the two timestamps does not parse, and else the week w with
\* 7 (w - 1) days <= Tp - T0 < 7 w days.
InCampaignWeek(post, ref, w) ==
    IF Parseable(post) /\ Parseable(ref)
    THEN /\ (w - 1) * DaysPerWeek * SecPerDay
              <= post.timestamp.t - ref.timestamp.t
         /\ post.timestamp.t - ref.timestamp.t < w * DaysPerWeek * SecPerDay
    ELSE w = 1

\* C24: the posts displayed for the selected week are exactly the campaign's
\* posts whose week, computed against the reference post of the whole sorted
\* campaign post list, is currentWeek; each is displayed once, in ascending
\* order of parsed timestamp.
C24_DisplayedPostsOfWeek ==
    wpc = "loaded" =>
        /\ \A i \in 1..Len(CampaignPosts) : \A r \in 1..Len(CampaignPosts) :
              IsReference(r) =>
                  (InCampaignWeek(CampaignPosts[i], CampaignPosts[r], currentWeek)
                      <=> CampaignPosts[i] \in SeqRange(SortedPosts))
        /\ SeqRange(SortedPosts) \subseteq SeqRange(CampaignPosts)
        /\ \A p, q \in 1..Len(SortedPosts) :
              p < q =>
                  /\ SortedPosts[p] # SortedPosts[q]
                  /\ TimeOrEpoch(SortedPosts[p]) <= TimeOrEpoch(SortedPosts[q])

\* A calendar that shows two posts of week 2 and leaves out a post of week 1
\* which the campaign lists after them.
C24_Witness ==
    /\ wpc = "loaded"
    /\ currentWeek = 2
    /\ Len(SortedPosts) >= 2
    /\ Len(CampaignPosts) > Len(SortedPosts)
    /\ \E r \in 2..Len(CampaignPosts) : IsReference(r)

\* C25 as stated: in the sorted copy every post whose timestamp is missing or
\* does not parse comes before every post whose timestamp parses, and the
\* posts whose timestamps parse are in ascending order.
C25_UnparseableFirst ==
    wpc = "loaded" =>
        \A i, j \in 1..Len(posts) :
            /\ (~ Parseable(posts[i]) /\ Parseable(posts[j])) => i < j
            /\ (Parseable(posts[i]) /\ Parseable(posts[j]) /\ i < j) =>
                  posts[i].timestamp.t <= posts[j].timestamp.t

\* C25, amended: the sorted copy holds the campaign's posts in ascending order
\* of sort key, the key of a post with a missing or unparseable timestamp
\* being the epoch 0, and posts of equal key in the order of the input: such a
\* post comes before every post with a timestamp after the epoch and after
\* every post with a timestamp before the epoch; the posts with parseable
\* timestamps are in ascending order; the first element of the copy is the
\* reference post, so that it is in week 1.
C25_SortedByKeyEpochZero ==
    wpc = "loaded" =>
        /\ Len(posts) = Len(CampaignPosts)
        /\ SeqRange(posts) = SeqRange(CampaignPosts)
        /\ \A i, j \in 1..Len(posts) :
              /\ i < j => TimeOrEpoch(posts[i]) <= TimeOrEpoch(posts[j])
              /\ (~ Parseable(posts[i]) /\ Parseable(posts[j])
                    /\ posts[j].timestamp.t > 0) => i < j
              /\ (~ Parseable(posts[i]) /\ Parseable(posts[j])
                    /\ posts[j].timestamp.t < 0) => j < i
              /\ (i < j /\ TimeOrEpoch(posts[i]) = TimeOrEpoch(posts[j])) =>
                    posts[i].post_id < posts[j].post_id
        /\ posts # <<>> =>
              /\ \E r \in 1..Len(CampaignPosts) :
                    IsReference(r) /\ CampaignPosts[r] = posts[1]
              /\ WeekOf(posts[1]) = 1

\* A sorted copy in which a post before 1970 comes first, then a post whose
\* timestamp does not parse, then a post after 1970.
C25_Witness ==
    /\ wpc = "loaded"
    /\ Len(posts) = 3
    /\ Parseable(posts[1]) /\ posts[1].timestamp.t < 0
    /\ ~ Parseable(posts[2])
    /\ Parseable(posts[3]) /\ posts[3].timestamp.t > 0

\* The seconds by which the timestamp of the call is earlier than the first
\* post of the list of the call.
SecondsBefore ==
    weekCall.sortedPostsArray[1].timestamp.t - weekCall.timestamp.t

\* The call has returned, and the first post of its list is later than its
\* timestamp.
ReturnedBeforeFirst ==
    /\ weekCall.pc = "returned"
    /\ weekCall.timestamp.k = "time"
    /\ weekCall.sortedPostsArray # <<>>
    /\ weekCall.sortedPostsArray[1].timestamp.k = "time"
    /\ SecondsBefore > 0

\* C26: for a timestamp earlier than the first post of the reference list the
\* days and the week are floored toward negative infinity: the week is 0 or
\* negative, 0 up to and including 7 days before T0, -1 for more than 7 and up
\* to 14 days before, and in general 1 - k in the k-th week before T0.
C26_WeekFlooredBelowOne ==
    ReturnedBeforeFirst =>
        /\ weekCall.week <= 0
        /\ SecondsBefore <= DaysPerWeek * SecPerDay => weekCall.week = 0
        /\ (/\ SecondsBefore > DaysPerWeek * SecPerDay
            /\ SecondsBefore <= 2 * DaysPerWeek * SecPerDay) => weekCall.week = 0 - 1
        /\ (0 - weekCall.week) * DaysPerWeek * SecPerDay < SecondsBefore
        /\ SecondsBefore <= (1 - weekCall.week) * DaysPerWeek * SecPerDay

\* A call with a timestamp one second more than 7 days before T0: week -1.
C26_Witness ==
    /\ ReturnedBeforeFirst
    /\ SecondsBefore = DaysPerWeek * SecPerDay + 1
    /\ weekCall.week = 0 - 1

-----------------------------------------------------------------------------
(* Properties of the delete confirmation and of the form.                  *)

\* A step in which the user declines the delete confirmation.
DeclineStep == lastConfirm # <<FALSE>> /\ lastConfirm' = <<FALSE>>

\* C21: when the user declines the delete confirmation, handleDeleteCampaign
\* changes nothing: the stored list, the list in memory, deleting, success
\* and error stay as they are and no refresh is set.
C21_DeclineChangesNothing ==
    [][DeclineStep =>
          /\ storage' = storage
          /\ campaigns' = campaigns
          /\ deleting' = deleting
          /\ success' = success
          /\ error' = error
          /\ timers' = timers
          /\ view' = view /\ selectedCampaignId' = selectedCampaignId]_vars

\* The user has declined a deletion while the message and the refresh of a
\* confirmed deletion were pending, with a campaign left in the list.
C21_Witness ==
    /\ lastConfirm = <<FALSE>>
    /\ success # <<>>
    /\ PendingRefreshes = 1
    /\ storage # <<>> /\ JsonParse(storage[1]) # <<>>
    /\ Len(campaigns) >= 2

\* A step of handleSubmit in which validateForm finds an error: it is the
\* only step that sets errors of the fields.
InvalidSubmitStep ==
    /\ errors' = FieldErrors
    /\ errors # FieldErrors \/ progress # 0

\* The submit timers and the requests under way do not call onSubmit for
\* more submissions after the step than before it.
NoNewSubmission ==
    /\ fetches' = fetches
    /\ timers' = timers
    /\ created' = created
    /\ campaigns' = campaigns

\* C22: when validateForm finds an error at a submission, no request is sent
\* and nothing is set up that would call onSubmit, the progress interval is
\* cleared, and the form is left with isSubmitting = false and progress = 0.
C22_InvalidFormNotSubmitted ==
    [][InvalidSubmitStep =>
          /\ NoNewSubmission
          /\ intervals' = intervals
          /\ isSubmitting' = FALSE
          /\ progress' = 0
          /\ view' = "create"]_vars

\* The form shows the errors of its fields after a submission that followed
\* a successful one within the 300 ms: the progress went from 100 back to 0.
C22_Witness ==
    /\ view = "create"
    /\ errors = FieldErrors
    /\ progress = 0
    /\ ~ isSubmitting
    /\ \E i \in 1..Len(timers) : timers[i].kind = "submit" /\ timers[i].live

\* A step in which a create request fails.
FetchFailStep ==
    /\ Cardinality(fetches') < Cardinality(fetches)
    /\ Len(timers') = Len(timers)
    /\ view' = view

\* C23: when the create request fails, onSubmit is not called and no campaign
\* is added, the failure is recorded in errors.submit, the progress is 0, the
\* progress interval is cleared and isSubmitting is false.
C23_FailureRecorded ==
    [][FetchFailStep =>
          /\ timers' = timers
          /\ campaigns' = campaigns
          /\ storage' = storage
          /\ intervals' \subseteq {f.data : f \in fetches'}
          /\ errors'.submit
          /\ progress' = 0
          /\ isSubmitting' = FALSE]_vars

=============================================================================
